---------------------------- MODULE Spec2Model ----------------------------
(***************************************************************************)
(* A model of dagster_components/core/component_defs_builder.py: the       *)
(* flattening of a declaration tree (resolve_decl_node_to_yaml_decls) and  *)
(* the resolution of component instance paths into one merged Definitions  *)
(* bundle (build_component_defs, build_defs_from_component_path,           *)
(* defs_from_components, build_components_from_component_folder).          *)
(*                                                                         *)
(* Two specifications share the module:                                    *)
(*   SpecFlatten  applies the flattener to every bounded declaration tree; *)
(*   Spec         runs the entry points step by step.                      *)
(***************************************************************************)
EXTENDS Integers, Sequences, FiniteSets

VARIABLES
    \* ---- flattener (SpecFlatten) ----
    decl,          \* the ComponentDeclNode handed to resolve_decl_node_to_yaml_decls
    fpc,           \* "idle" | "call" | "returned" | "raised" | "reflattened"
    leaf_decls,    \* the list the call returned (<<>> until it returns)
    fexc,          \* the exception the call raised ("" when none)
    again,         \* the outcome of flattening ComponentFolder(sub_decls = leaf_decls)
    \* ---- resolution (Spec) ----
    entry,         \* the entry point called ("idle" under SpecFlatten)
    pc,            \* where the call stands: "start", "loop", "path", "load", "build",
                   \* "done" (returned), "raised" (left by an exception)
    resources,     \* the resources argument: [given, map] (given = FALSE: None)
    default_scope, \* the rendering scope of TemplatedValueResolver.default()
    n_inst,        \* len(context.component_instances)
    k_inst,        \* how many instances the loop of build_component_defs has taken
    decl_node,     \* what path_to_decl_node returned: its kind, "None", or "unset"
    context,       \* the ComponentLoadContext of the current path
    n_components,  \* len(components), what decl_node.load returned
    n_loaded,      \* components loaded so far in the run (kept within MaxComponents)
    bundles,       \* the Definitions the components of this path have built so far
    c_scope,       \* get_additional_scope() of the component built last
    c_context,     \* the context derived last (handed to build_defs or to load)
    sibling_keys,  \* scope keys added by the components built before the last one
    defs,          \* what build_defs_from_component_path returned last
    all_defs,      \* the list all_defs of build_component_defs
    ret,           \* the Definitions the entry point returned: [returned, value]
    loaded,        \* what build_components_from_component_folder returned: [returned, n]
    err,           \* the exception that left the entry point ("" when none)
    last_merge,    \* the last Definitions.merge call: who called, with how many bundles
    distinct       \* no two components built so far in the run declared the same name

fvars == <<decl, fpc, leaf_decls, fexc, again>>

rvars == <<entry, pc, resources, default_scope, n_inst, k_inst, decl_node, context,
           n_components, n_loaded, bundles, c_scope, c_context, sibling_keys, defs, all_defs,
           ret, loaded, err, last_merge, distinct>>

vars == <<fvars, rvars>>

---------------------------------------------------------------------------
(* Bounds *)

\* Largest number of nodes of a declaration tree.
MaxNodes == 5

\* Largest number of component instances build_component_defs discovers.
MaxPaths == 2

\* Largest number of components loaded in one run, over all its paths.
MaxComponents == 3

---------------------------------------------------------------------------
(* Declaration trees.  A node carries its kind (the class isinstance tests), *)
(* its path (unique per node: the position of the node in the tree) and its  *)
(* ordered children (empty for anything but a folder).                       *)

YamlComponentDecl(path) ==
    [kind |-> "YamlComponentDecl", path |-> path, sub_decls |-> <<>>]

ComponentFolder(path, subs) ==
    [kind |-> "ComponentFolder", path |-> path, sub_decls |-> subs]

\* A ComponentDeclNode of a class outside {YamlComponentDecl, ComponentFolder}.
OtherDeclNode(path) ==
    [kind |-> "OtherDeclNode", path |-> path, sub_decls |-> <<>>]

RECURSIVE NodeCount(_)
NodeCount(t) ==
    LET RECURSIVE Sum(_)
        Sum(i) == IF i > Len(t.sub_decls) THEN 0
                  ELSE NodeCount(t.sub_decls[i]) + Sum(i + 1)
    IN 1 + Sum(1)

RECURSIVE TreesAt(_, _), ForestsAt(_, _, _)
\* Every tree of at most n nodes whose root sits at path pos.
TreesAt(n, pos) ==
    IF n = 0 THEN {}
    ELSE {YamlComponentDecl(pos), OtherDeclNode(pos)}
         \cup {ComponentFolder(pos, f) : f \in ForestsAt(n - 1, pos, 1)}
\* Every sequence of children, the first at index i under pos, of at most m nodes.
ForestsAt(m, pos, i) ==
    {<<>>} \cup
    UNION { {<<t>> \o f : f \in ForestsAt(m - NodeCount(t), pos, i + 1)} :
            t \in TreesAt(m, Append(pos, i)) }

DeclTrees == TreesAt(MaxNodes, <<>>)

---------------------------------------------------------------------------
(* resolve_decl_node_to_yaml_decls *)

Returned(v) == [raised |-> FALSE, exc |-> "", value |-> v]
NoOutcome == Returned(<<>>)
Raised(e) == [raised |-> TRUE, exc |-> e, value |-> <<>>]

RECURSIVE resolve_decl_node_to_yaml_decls(_), extend_leaf_decls(_, _, _)

\* Mutant: an unknown node is skipped instead of raising.
resolve_skipping_unknown(d) ==
    IF d.kind = "YamlComponentDecl" THEN Returned(<<d>>)
    ELSE IF d.kind = "ComponentFolder" THEN extend_leaf_decls(d.sub_decls, 1, <<>>)
    ELSE Returned(<<>>)

resolve_decl_node_to_yaml_decls(d) ==
    IF d.kind = "YamlComponentDecl" THEN Returned(<<d>>)
    ELSE IF d.kind = "ComponentFolder" THEN extend_leaf_decls(d.sub_decls, 1, <<>>)
    ELSE Raised("NotImplementedError")

\* Mutant: each child's leaves are put in front of the list instead of behind it.
extend_leaf_decls_in_front(subs, k, acc) ==
    IF k > Len(subs) THEN Returned(acc)
    ELSE LET r == resolve_decl_node_to_yaml_decls(subs[k])
         IN IF r.raised THEN r
            ELSE extend_leaf_decls(subs, k + 1, r.value \o acc)

\* The loop of lines 29-32: leaf_decls.extend(...) per child, in child order; an
\* exception raised by a recursive call leaves the loop and the function.
extend_leaf_decls(subs, k, acc) ==
    IF k > Len(subs) THEN Returned(acc)
    ELSE LET r == resolve_decl_node_to_yaml_decls(subs[k])
         IN IF r.raised THEN r
            ELSE extend_leaf_decls(subs, k + 1, acc \o r.value)

---------------------------------------------------------------------------
(* Mappings (Python dicts / Mapping): functions on a finite set of keys.    *)

EmptyMap == <<>>

Maps(K, V) == UNION {[D -> V] : D \in SUBSET K}

\* {**a, **b}: the union of two mappings, b's entry winning on a shared key.
Override(a, b) ==
    [k \in DOMAIN a \cup DOMAIN b |-> IF k \in DOMAIN b THEN b[k] ELSE a[k]]

---------------------------------------------------------------------------
(* The values the resolution works on.                                      *)

\* Artifact objects: each has the name it is defined under; foo1 and foo2 are
\* two different objects of the same name.
ArtifactObjects ==
    { [name |-> "foo", id |-> 1], [name |-> "foo", id |-> 2],
      [name |-> "bar", id |-> 1] }

ArtifactNames == {o.name : o \in ArtifactObjects}

\* The name -> object mappings a component can declare.
ArtifactMaps ==
    {m \in Maps(ArtifactNames, ArtifactObjects) : \A k \in DOMAIN m : m[k].name = k}

\* A Definitions object: the artifacts by name and, separately, the resources.
Definitions(arts, res) == [arts |-> arts, res |-> res]

EmptyDefinitions == Definitions(EmptyMap, EmptyMap)

\* The resources argument of the entry points: None, or a mapping.
ResourceArgs ==
    { [given |-> FALSE, map |-> EmptyMap],
      [given |-> TRUE, map |-> [k \in {"r"} |-> "resource_r"]] }

\* Rendering scopes.
DefaultScopes == {EmptyMap, [k \in {"x"} |-> 0]}
AdditionalScopes == {EmptyMap, [k \in {"x"} |-> 1]}

\* A Component, as far as this file uses it: get_additional_scope() and the
\* artifacts build_defs returns.
Components == {[scope |-> s, arts |-> a] : s \in AdditionalScopes, a \in ArtifactMaps}

\* The errors decl_node.load can raise (leaf resolution).
LoadErrors == {"UnknownComponentType", "UnresolvedReference", "MalformedConfig"}

NoContext ==
    [made |-> FALSE, resources |-> EmptyMap, registry |-> "registry",
     decl_node |-> "None", scope |-> EmptyMap]

\* ComponentLoadContext(resources=, registry=, decl_node=, templated_value_resolver=)
ComponentLoadContext(res, node, scope) ==
    [made |-> TRUE, resources |-> res, registry |-> "registry",
     decl_node |-> node, scope |-> scope]

\* context.with_rendering_scope(extra): a new context, the scope overridden by extra.
with_rendering_scope(ctx, extra) ==
    [ctx EXCEPT !.scope = Override(ctx.scope, extra)]

\* context.for_decl_node(node): a new context focused on node.
for_decl_node(ctx, node) == [ctx EXCEPT !.decl_node = node]

NotReturned == [returned |-> FALSE, value |-> EmptyDefinitions]
NoMerge == [fn |-> "none", handed |-> 0, expected |-> 0]

---------------------------------------------------------------------------
(* Definitions.merge: the union of the bundles' entries, failing when two    *)
(* bundles define one name with different objects.                           *)

Conflicts(a, b) == \E k \in DOMAIN a \cap DOMAIN b : a[k] # b[k]

RECURSIVE merge_from(_, _, _)
merge_from(def_sets, k, acc) ==
    IF k > Len(def_sets) THEN Returned(acc)
    ELSE IF \/ Conflicts(acc.arts, def_sets[k].arts)
            \/ Conflicts(acc.res, def_sets[k].res)
         THEN Raised("DuplicateArtifactName")
         ELSE merge_from(def_sets, k + 1,
                         Definitions(Override(acc.arts, def_sets[k].arts),
                                     Override(acc.res, def_sets[k].res)))

Definitions_merge(def_sets) == merge_from(def_sets, 1, EmptyDefinitions)

---------------------------------------------------------------------------
(* The steps of component_defs_builder.py.                                   *)

\* `resources or {}` (line 113) for build_component_defs; the argument itself
\* for build_defs_from_component_path.
ResourcesArg ==
    IF entry = "build_component_defs"
    THEN (IF resources.given THEN resources.map ELSE EmptyMap)
    ELSE resources.map

\* Mutant: each component's context is derived from the context derived for
\* the component before it.
ComponentContextChained(ctx, previous, c) ==
    with_rendering_scope(IF previous.made THEN previous ELSE ctx, c.scope)

\* Line 77: context.with_rendering_scope(c.get_additional_scope()), derived
\* from the context of the call, whatever was derived before.
ComponentContext(ctx, previous, c) == with_rendering_scope(ctx, c.scope)

\* Mutant: the component bundles are folded into one by dict update before
\* the merge, a later bundle overwriting an earlier one's name.
MergeArgsOverwriting(bs, res) ==
    LET RECURSIVE Fold(_, _)
        Fold(k, acc) == IF k > Len(bs) THEN acc
                        ELSE Fold(k + 1, Override(acc, bs[k].arts))
    IN <<Definitions(Fold(1, EmptyMap), EmptyMap), Definitions(EmptyMap, res)>>

\* Mutant: the bundle of the resources is left out of the merge.
MergeArgsWithoutResources(bs, res) == bs

\* Lines 75-81: the bundles handed to Definitions.merge, the components'
\* bundles in order, then Definitions(resources=resources).
MergeArgs(bs, res) == bs \o <<Definitions(EmptyMap, res)>>

\* Mutant: the merge is called as soon as one bundle is there.
MergeReadyEarly == Len(bundles) >= 1 \/ n_components = 0

\* Lines 74-82: every argument of Definitions.merge is evaluated before the
\* call, so the comprehension has run over every component.
MergeReady == Len(bundles) = n_components

\* Line 108/116: the final merge follows the loop over every instance.
FinalMergeReady == k_inst = n_inst

\* Mutant: a failing path is skipped and what was merged so far is returned.
ReturnPartial(exc) ==
    LET r == Definitions_merge(all_defs)
    IN [pc |-> "done", err |-> exc,
        ret |-> [returned |-> TRUE,
                 value |-> IF r.raised THEN EmptyDefinitions ELSE r.value]]

\* No try/except in the file: an exception leaves every frame up to the entry
\* point, which returns nothing.
Propagate(exc) == [pc |-> "raised", err |-> exc, ret |-> NotReturned]

\* The names declared by the components built so far in the run.
DeclaredNames ==
    UNION {DOMAIN all_defs[k].arts : k \in 1..Len(all_defs)}
    \cup UNION {DOMAIN bundles[k].arts : k \in 1..Len(bundles)}

Entries ==
    {"build_component_defs", "build_defs_from_component_path",
     "build_components_from_component_folder"}

Init ==
    /\ fpc = "idle"
    /\ decl = OtherDeclNode(<<>>)
    /\ leaf_decls = <<>>
    /\ fexc = ""
    /\ again = NoOutcome
    /\ entry \in Entries
    /\ resources \in ResourceArgs
    /\ entry # "build_component_defs" => resources.given
    /\ default_scope \in DefaultScopes
    /\ pc = IF entry = "build_defs_from_component_path" THEN "path" ELSE "start"
    /\ n_inst = 0
    /\ k_inst = 0
    /\ decl_node = "unset"
    /\ context = IF entry = "build_components_from_component_folder"
                 THEN ComponentLoadContext(resources.map, "ComponentFolder", default_scope)
                 ELSE NoContext
    /\ n_components = 0
    /\ n_loaded = 0
    /\ bundles = <<>>
    /\ c_scope = EmptyMap
    /\ c_context = NoContext
    /\ sibling_keys = {}
    /\ defs = NotReturned
    /\ all_defs = <<>>
    /\ ret = NotReturned
    /\ loaded = [returned |-> FALSE, n |-> 0]
    /\ err = ""
    /\ last_merge = NoMerge
    /\ distinct = TRUE

\* build_component_defs, lines 101-107: the project context lists the
\* component instances; all_defs starts empty.
DiscoverInstances ==
    /\ entry = "build_component_defs"
    /\ pc = "start"
    /\ \E n \in 0..MaxPaths : n_inst' = n
    /\ pc' = "loop"
    /\ UNCHANGED <<fvars, n_loaded, entry, resources, default_scope, k_inst, decl_node, context,
                   n_components, bundles, c_scope, c_context, sibling_keys, defs,
                   all_defs, ret, loaded, err, last_merge, distinct>>

\* build_component_defs, lines 108-110: the loop takes the next instance and
\* calls build_defs_from_component_path on its path.
NextInstance ==
    /\ entry = "build_component_defs"
    /\ pc = "loop"
    /\ k_inst < n_inst
    /\ k_inst' = k_inst + 1
    /\ pc' = "path"
    /\ decl_node' = "unset"
    /\ context' = NoContext
    /\ n_components' = 0
    /\ bundles' = <<>>
    /\ c_scope' = EmptyMap
    /\ c_context' = NoContext
    /\ sibling_keys' = {}
    /\ UNCHANGED <<fvars, n_loaded, entry, resources, default_scope, n_inst, defs, all_defs,
                   ret, loaded, err, last_merge, distinct>>

\* build_defs_from_component_path, lines 51-60: path_to_decl_node, the check
\* of its result, and the load context.
PathToDeclNode ==
    /\ pc = "path"
    /\ \E node \in {"None", "YamlComponentDecl", "ComponentFolder"} :
        /\ decl_node' = node
        /\ IF node = "None"
           THEN /\ pc' = Propagate("NotFound").pc
                /\ err' = Propagate("NotFound").err
                /\ ret' = Propagate("NotFound").ret
                /\ UNCHANGED context
           ELSE /\ context' = ComponentLoadContext(ResourcesArg, node, default_scope)
                /\ pc' = "load"
                /\ UNCHANGED <<err, ret>>
    /\ UNCHANGED <<fvars, n_loaded, entry, resources, default_scope, n_inst, k_inst,
                   n_components, bundles, c_scope, c_context, sibling_keys, defs,
                   all_defs, loaded, last_merge, distinct>>

\* build_defs_from_component_path, line 61: decl_node.load(context) returns the
\* components or raises.
LoadComponents ==
    /\ pc = "load"
    /\ \/ \E e \in LoadErrors :
            /\ pc' = Propagate(e).pc
            /\ err' = Propagate(e).err
            /\ ret' = Propagate(e).ret
            /\ UNCHANGED <<n_components, n_loaded>>
       \/ \E n \in 0..(MaxComponents - n_loaded) :
            /\ n_components' = n
            /\ n_loaded' = n_loaded + n
            /\ pc' = "build"
            /\ UNCHANGED <<err, ret>>
    /\ UNCHANGED <<fvars, entry, resources, default_scope, n_inst, k_inst, decl_node,
                   context, bundles, c_scope, c_context, sibling_keys, defs,
                   all_defs, loaded, last_merge, distinct>>

\* defs_from_components, lines 76-79, one turn of the comprehension: the next
\* component builds its Definitions under its own derived context, or raises.
BuildDefs ==
    /\ pc = "build"
    /\ Len(bundles) < n_components
    /\ \E c \in Components :
        /\ c_context' = ComponentContext(context, c_context, c)
        /\ c_scope' = c.scope
        /\ sibling_keys' = sibling_keys \cup DOMAIN c_scope
        /\ \/ /\ pc' = Propagate("ComponentBuildError").pc
              /\ err' = Propagate("ComponentBuildError").err
              /\ ret' = Propagate("ComponentBuildError").ret
              /\ UNCHANGED <<bundles, distinct>>
           \/ /\ bundles' = Append(bundles, Definitions(c.arts, EmptyMap))
              /\ distinct' = (distinct /\ DOMAIN c.arts \cap DeclaredNames = {})
              /\ UNCHANGED <<pc, err, ret>>
    /\ UNCHANGED <<fvars, n_loaded, entry, resources, default_scope, n_inst, k_inst, decl_node,
                   context, n_components, defs, all_defs, loaded, last_merge>>

\* defs_from_components, lines 74-82, and its callers' next line: the merge of
\* the components' bundles with the resources, returned by
\* build_defs_from_component_path (line 62) and, in build_component_defs,
\* appended to all_defs (lines 110-115).
MergeComponentDefs ==
    /\ pc = "build"
    /\ MergeReady
    /\ LET r == Definitions_merge(MergeArgs(bundles, ResourcesArg))
       IN /\ last_merge' = [fn |-> "defs_from_components", handed |-> Len(bundles),
                            expected |-> n_components]
          /\ IF r.raised
             THEN /\ pc' = Propagate(r.exc).pc
                  /\ err' = Propagate(r.exc).err
                  /\ ret' = Propagate(r.exc).ret
                  /\ UNCHANGED <<defs, all_defs>>
             ELSE /\ defs' = [returned |-> TRUE, value |-> r.value]
                  /\ IF entry = "build_component_defs"
                     THEN /\ all_defs' = Append(all_defs, r.value)
                          /\ pc' = "loop"
                          /\ UNCHANGED <<ret, err>>
                     ELSE /\ ret' = [returned |-> TRUE, value |-> r.value]
                          /\ pc' = "done"
                          /\ UNCHANGED <<all_defs, err>>
    /\ UNCHANGED <<fvars, n_loaded, entry, resources, default_scope, n_inst, k_inst, decl_node,
                   context, n_components, bundles, c_scope, c_context, sibling_keys,
                   loaded, distinct>>

\* build_component_defs, line 116: Definitions.merge(*all_defs).
MergeAllDefs ==
    /\ entry = "build_component_defs"
    /\ pc = "loop"
    /\ FinalMergeReady
    /\ LET r == Definitions_merge(all_defs)
       IN /\ last_merge' = [fn |-> "build_component_defs", handed |-> Len(all_defs),
                            expected |-> n_inst]
          /\ IF r.raised
             THEN /\ pc' = Propagate(r.exc).pc
                  /\ err' = Propagate(r.exc).err
                  /\ ret' = Propagate(r.exc).ret
             ELSE /\ ret' = [returned |-> TRUE, value |-> r.value]
                  /\ pc' = "done"
                  /\ UNCHANGED err
    /\ UNCHANGED <<fvars, n_loaded, entry, resources, default_scope, n_inst, k_inst, decl_node,
                   context, n_components, bundles, c_scope, c_context, sibling_keys,
                   defs, all_defs, loaded, distinct>>

\* build_components_from_component_folder, lines 40-42.  The assert is there
\* or not (python -O strips it); without it a None has no attribute load.
ComponentsFromFolder ==
    /\ entry = "build_components_from_component_folder"
    /\ pc = "start"
    /\ \E node \in {"None", "YamlComponentDecl", "ComponentFolder"},
          asserts \in BOOLEAN :
        /\ decl_node' = node
        /\ IF asserts /\ node # "ComponentFolder"
           THEN /\ pc' = "raised"
                /\ err' = "AssertionError"
                /\ UNCHANGED <<c_context, loaded, n_components, n_loaded>>
           ELSE IF node = "None"
           THEN /\ pc' = "raised"
                /\ err' = "AttributeError"
                /\ UNCHANGED <<c_context, loaded, n_components, n_loaded>>
           ELSE /\ c_context' = for_decl_node(context, node)
                /\ \/ \E e \in LoadErrors :
                        /\ pc' = "raised"
                        /\ err' = e
                        /\ UNCHANGED <<loaded, n_components, n_loaded>>
                   \/ \E n \in 0..MaxComponents :
                        /\ n_components' = n
                        /\ n_loaded' = n
                        /\ loaded' = [returned |-> TRUE, n |-> n]
                        /\ pc' = "done"
                        /\ UNCHANGED err
    /\ UNCHANGED <<fvars, entry, resources, default_scope, n_inst, k_inst, context,
                   bundles, c_scope, sibling_keys, defs, all_defs, ret, last_merge,
                   distinct>>

Next ==
    \/ DiscoverInstances
    \/ NextInstance
    \/ PathToDeclNode
    \/ LoadComponents
    \/ BuildDefs
    \/ MergeComponentDefs
    \/ MergeAllDefs
    \/ ComponentsFromFolder

Spec == Init /\ [][Next]_vars

---------------------------------------------------------------------------
(* Resolution: the states the claims speak about.                           *)

\* build_defs_from_component_path has just returned (bundles still holds the
\* bundles of its components, defs what it returned).
PathReturned ==
    \/ entry = "build_component_defs" /\ pc = "loop" /\ k_inst >= 1
    \/ entry = "build_defs_from_component_path" /\ pc = "done"

\* The merge of defs_from_components has just raised.
PathMergeRaised ==
    /\ pc = "raised"
    /\ err = "DuplicateArtifactName"
    /\ last_merge.fn = "defs_from_components"

\* The final merge of build_component_defs has been called.
FinalMergeCalled ==
    entry = "build_component_defs" /\ last_merge.fn = "build_component_defs"

\* Two of the bundles define one name with different objects.
SomeConflict(bs) ==
    \E j, k \in 1..Len(bs) : Conflicts(bs[j].arts, bs[k].arts)

\* No two of the bundles define the same name.
PairwiseDistinct(bs) ==
    \A j, k \in 1..Len(bs) : j # k => DOMAIN bs[j].arts \cap DOMAIN bs[k].arts = {}

\* The merged artifacts hold every entry of every bundle, and nothing else.
IsUnionOf(arts, bs) ==
    /\ DOMAIN arts = UNION {DOMAIN bs[k].arts : k \in 1..Len(bs)}
    /\ \A k \in 1..Len(bs) : \A n \in DOMAIN bs[k].arts : arts[n] = bs[k].arts[n]

\* C1: a merge, of the bundles of one path's components or of the per-path
\* bundles, raises DuplicateArtifactName exactly when two of the bundles it is
\* about define one name with different objects; otherwise it succeeds and
\* every name maps to the object every defining bundle gave it (a name shared
\* with identical objects is defined once, none is overwritten).
C1_MergeCollisionDetection ==
    /\ (PathReturned \/ PathMergeRaised) =>
        /\ SomeConflict(bundles) <=> PathMergeRaised
        /\ PathReturned => IsUnionOf(defs.value.arts, bundles)
    /\ FinalMergeCalled =>
        /\ SomeConflict(all_defs) <=> (pc = "raised" /\ err = "DuplicateArtifactName")
        /\ pc = "done" => IsUnionOf(ret.value.arts, all_defs)

\* Two components of the second path defined foo with the same object and
\* merged; the final merge then met the first path's different foo and raised.
C1_Witness ==
    /\ FinalMergeCalled
    /\ pc = "raised"
    /\ Len(bundles) = 2
    /\ "foo" \in DOMAIN bundles[1].arts \cap DOMAIN bundles[2].arts
    /\ bundles[1].arts["foo"] = bundles[2].arts["foo"]
    /\ defs.value.arts["foo"] = bundles[1].arts["foo"]
    /\ all_defs[1].arts["foo"] # all_defs[2].arts["foo"]

\* C2: a call left by an exception returns nothing: an error and a returned
\* bundle never coexist, and the failing path adds nothing to all_defs.
C2_NoPartialBundle ==
    /\ err # "" <=> pc = "raised"
    /\ pc = "raised" => ~ret.returned /\ ~loaded.returned
    /\ ret.returned => pc = "done" /\ err = ""
    /\ (entry = "build_component_defs" /\ pc = "raised" /\ ~FinalMergeCalled)
            => Len(all_defs) = k_inst - 1

\* build_component_defs failed on its second path after the first one had
\* resolved to a bundle with artifacts.
C2_Witness ==
    /\ entry = "build_component_defs"
    /\ pc = "raised"
    /\ k_inst = 2
    /\ Len(all_defs) = 1
    /\ all_defs[1].arts # EmptyMap
    /\ ~FinalMergeCalled

\* C3: the context a component builds under has the scope of the call's
\* context overridden by the component's own additional scope; a key only an
\* earlier component added is not in it; the call's context keeps its scope.
C3_ScopeIsolation ==
    (entry # "build_components_from_component_folder" /\ c_context.made) =>
        /\ c_context.scope = Override(default_scope, c_scope)
        /\ \A key \in sibling_keys \ (DOMAIN default_scope \cup DOMAIN c_scope) :
                key \notin DOMAIN c_context.scope
        /\ context.scope = default_scope

\* The second component of a path, with no scope of its own, was built after a
\* sibling that added x, under a base scope without x.
C3_Witness ==
    /\ pc = "build"
    /\ Len(bundles) = 2
    /\ "x" \in sibling_keys
    /\ c_scope = EmptyMap
    /\ default_scope = EmptyMap

ContextCreated ==
    \/ entry # "build_components_from_component_folder" /\ context.made
    \/ c_context.made

\* C6, as claimed: a path that resolves to no declaration node makes the entry
\* point fail with NotFound, before any context is created and any component
\* loaded, returning nothing.
C6_MissingDeclarationIsNotFound ==
    decl_node = "None" =>
        /\ pc = "raised"
        /\ err = "NotFound"
        /\ ~ContextCreated
        /\ ~ret.returned
        /\ ~loaded.returned

\* C7, as claimed: no merge starts while a component of the resolution is
\* still unbuilt, so no component is built after a merge of the same run.
C7_NoBuildAfterAnyMerge ==
    (pc = "build" /\ Len(bundles) >= 1) => last_merge.fn = "none"

\* C7, amended: every call of Definitions.merge is made with all the bundles
\* of its own caller built: defs_from_components after every component of that
\* path, build_component_defs after every instance path.
C7_MergeAfterOwnBuilds ==
    /\ last_merge.handed = last_merge.expected
    /\ last_merge.fn = "defs_from_components" => last_merge.handed <= n_loaded
    /\ FinalMergeCalled => (k_inst = n_inst /\ last_merge.handed = n_inst)

\* The final merge was called over two paths, one of them with two components.
C7_Witness ==
    /\ FinalMergeCalled
    /\ last_merge.handed = 2
    /\ Len(bundles) = 2

\* C10, as claimed: with pairwise distinct names over all instances,
\* build_component_defs succeeds whenever its paths load and build, and returns
\* the supplied resources and the union of the artifacts, for any n >= 0.
C10_ResourcesKeptForAnyN ==
    (FinalMergeCalled /\ distinct) =>
        /\ pc = "done"
        /\ ret.value.res = ResourcesArg
        /\ IsUnionOf(ret.value.arts, all_defs)

---------------------------------------------------------------------------
(* SpecFlatten: the flattener applied to every bounded tree, then applied   *)
(* again to its own result wrapped as one flat folder.                       *)

FlattenInit ==
    /\ decl \in DeclTrees
    /\ fpc = "call"
    /\ leaf_decls = <<>>
    /\ fexc = ""
    /\ again = NoOutcome
    /\ entry = "idle"
    /\ pc = "idle"
    /\ resources = [given |-> FALSE, map |-> EmptyMap]
    /\ default_scope = EmptyMap
    /\ n_inst = 0
    /\ k_inst = 0
    /\ decl_node = "unset"
    /\ context = NoContext
    /\ n_components = 0
    /\ n_loaded = 0
    /\ bundles = <<>>
    /\ c_scope = EmptyMap
    /\ c_context = NoContext
    /\ sibling_keys = {}
    /\ defs = NotReturned
    /\ all_defs = <<>>
    /\ ret = NotReturned
    /\ loaded = [returned |-> FALSE, n |-> 0]
    /\ err = ""
    /\ last_merge = NoMerge
    /\ distinct = TRUE

\* resolve_decl_node_to_yaml_decls(decl)
Flatten ==
    /\ fpc = "call"
    /\ LET r == resolve_decl_node_to_yaml_decls(decl)
       IN /\ fpc' = IF r.raised THEN "raised" ELSE "returned"
          /\ leaf_decls' = r.value
          /\ fexc' = r.exc
    /\ UNCHANGED <<decl, again, rvars>>

\* resolve_decl_node_to_yaml_decls(ComponentFolder(sub_decls = leaf_decls))
Reflatten ==
    /\ fpc = "returned"
    /\ again' = resolve_decl_node_to_yaml_decls(ComponentFolder(<<>>, leaf_decls))
    /\ fpc' = "reflattened"
    /\ UNCHANGED <<decl, leaf_decls, fexc, rvars>>

FlattenNext == Flatten \/ Reflatten

SpecFlatten == FlattenInit /\ [][FlattenNext]_vars

---------------------------------------------------------------------------
(* What the flattener is expected to compute, stated without the flattener. *)

\* The leaves of a tree, as a set.
RECURSIVE LeafNodes(_)
LeafNodes(t) ==
    IF t.kind = "YamlComponentDecl" THEN {t}
    ELSE UNION {LeafNodes(t.sub_decls[k]) : k \in 1..Len(t.sub_decls)}

\* Whether a node of a kind other than leaf or folder occurs anywhere in a tree.
RECURSIVE HasUnknownNode(_)
HasUnknownNode(t) ==
    \/ t.kind \notin {"YamlComponentDecl", "ComponentFolder"}
    \/ \E k \in 1..Len(t.sub_decls) : HasUnknownNode(t.sub_decls[k])

\* Path p comes first in a depth-first, left-to-right walk (neither is a prefix
\* of the other: both are paths of leaves).
PathBefore(p, q) ==
    \E k \in 1..Len(p) :
        /\ k <= Len(q)
        /\ \A j \in 1..(k - 1) : p[j] = q[j]
        /\ p[k] < q[k]

\* C5: when the call returns, a Leaf gives the one-element list holding it, an
\* empty folder gives the empty list, and in general the list holds every leaf
\* of the tree exactly once, in depth-first left-to-right order; a tree of
\* leaves and folders only always returns.
C5_FlattenResult ==
    /\ (fpc \in {"returned", "raised", "reflattened"} /\ ~HasUnknownNode(decl))
            => fpc # "raised"
    /\ fpc \in {"returned", "reflattened"} =>
        /\ decl.kind = "YamlComponentDecl" => leaf_decls = <<decl>>
        /\ (decl.kind = "ComponentFolder" /\ decl.sub_decls = <<>>) => leaf_decls = <<>>
        /\ {leaf_decls[k] : k \in 1..Len(leaf_decls)} = LeafNodes(decl)
        /\ Len(leaf_decls) = Cardinality(LeafNodes(decl))
        /\ \A j, k \in 1..Len(leaf_decls) :
                j < k => PathBefore(leaf_decls[j].path, leaf_decls[k].path)

\* A nested tree with leaves at two depths has been flattened.
C5_Witness ==
    /\ fpc = "returned"
    /\ Len(leaf_decls) >= 3
    /\ \E j, k \in 1..Len(leaf_decls) :
            Len(leaf_decls[j].path) = 1 /\ Len(leaf_decls[k].path) >= 2

\* C8: a node that is neither Leaf nor Folder, at the root or nested at any
\* depth, makes the whole call raise NotImplementedError (the unknown-node-kind
\* error); nothing is returned, in particular not the leaves visited before it.
C8_UnknownNodeFailsClosed ==
    (fpc \in {"returned", "raised", "reflattened"} /\ HasUnknownNode(decl)) =>
        /\ fpc = "raised"
        /\ fexc = "NotImplementedError"
        /\ leaf_decls = <<>>

\* The call raised on an unknown node nested two folders deep, after a leaf.
C8_Witness ==
    /\ fpc = "raised"
    /\ decl.kind = "ComponentFolder"
    /\ Len(decl.sub_decls) >= 2
    /\ decl.sub_decls[1].kind = "YamlComponentDecl"
    /\ decl.sub_decls[2].kind = "ComponentFolder"
    /\ HasUnknownNode(decl.sub_decls[2])

\* C9: flattening the flat folder made of a flattening's result gives that
\* result again, same leaves in the same order, and no step changes the tree.
C9_IdempotentFlatten ==
    [][ /\ fpc' = "reflattened" => again' = Returned(leaf_decls')
        /\ fpc # "idle" => decl' = decl ]_vars

\* A nested tree of several leaves has been flattened twice.
C9_Witness ==
    /\ fpc = "reflattened"
    /\ Len(leaf_decls) >= 2
    /\ \E k \in 1..Len(leaf_decls) : Len(leaf_decls[k].path) >= 2

=============================================================================
